---- MODULE Spec2Model ----
(***************************************************************************)
(* Slack betting bot: the database rows (users, betting_lines, bets), the  *)
(* BettingService methods and the Slack handlers that drive them.          *)
(*                                                                         *)
(* Two execution models share the same database primitives:                *)
(*   - SpecSeq / SpecApi: every handler (or service call) runs to          *)
(*     completion before the next event starts (one atomic action each);   *)
(*   - SpecConc and its variants: handlers are processes that interleave   *)
(*     at every awaited database call.                                     *)
(***************************************************************************)
EXTENDS Integers, Sequences, FiniteSets, TLC

VARIABLES
  users,      \* users table: member -> row (registered = the row exists)
  lines,      \* betting_lines table: line id -> row (status "none" = no row)
  bets,       \* bets table: a set of rows
  nextBetId,  \* stands for the fresh uuid of the next bets row
  payoutRuns, \* history: line id -> number of processPayouts runs on the line
  lastOp,     \* history: the last completed event, its outcome and payoutData
  pc,         \* interleaved model: handler slot -> position in its handler
  loc,        \* interleaved model: handler slot -> the handler's local variables
  events      \* number of events accepted so far

vars == <<users, lines, bets, nextBetId, payoutRuns, lastOp, pc, loc, events>>

(***************************************************************************)
(* Bounds and universes                                                    *)
(***************************************************************************)
MaxSeqEvents == 5
MaxConcEvents == 3

DEFAULT_BALANCE == 20

Members == {"M1", "M2", "M3"}
ConcMembers == {"M1", "M2"}
LineIds == {1, 2}
ConcLineIds == {1}
Procs == {"h1", "h2"}

NULL == "<null>"

\* the members who hold admin permissions in the Slack workspace
WorkspaceAdmins == {"M1"}

\* option lists an operator may type after "options:" (already split and trimmed)
OptionInputs == {<<"over", "under">>, <<"red", "blue", "green">>, <<"solo">>}
\* reaction names a member may toggle on a betting card
Reactions == {"chart_with_upwards_trend", "chart_with_downwards_trend", "a", "b", "thumbsup"}
\* option texts an operator may type after "winner:"
Winners == {"over", "Over", "under", "red", "blue", "nobody"}
\* texts an operator may type after "options:", as the entries between the commas
RawOptionInputs ==
  {<<"over", " under">>, <<" red", "blue ", "", "green">>, <<"solo", " ">>, <<" ">>}
\* the same with an option text that names a property every JavaScript object inherits
NamedOptionInputs == OptionInputs \cup {<<"constructor", "x">>}
NamedWinners == Winners \cup {"constructor"}

(***************************************************************************)
(* Small helpers                                                           *)
(***************************************************************************)
Min(S) == CHOOSE x \in S : \A y \in S : x <= y

Max2(a, b) == IF a >= b THEN a ELSE b

RECURSIVE SetToSeqById(_)
\* rows of a result set in rowid (insertion) order
SetToSeqById(S) ==
  IF S = {} THEN <<>>
  ELSE LET b == CHOOSE x \in S : \A y \in S : x.id <= y.id
       IN <<b>> \o SetToSeqById(S \ {b})

RECURSIVE SumAmount(_)
SumAmount(s) == IF s = <<>> THEN 0 ELSE Head(s).amount + SumAmount(Tail(s))

RECURSIVE SumPayout(_)
SumPayout(s) == IF s = <<>> THEN 0 ELSE Head(s).payout + SumPayout(Tail(s))

\* a search that answers the first position when the element is missing
FindIndexOrFirst(s, e) ==
  IF \E i \in 1..Len(s) : s[i] = e
  THEN Min({i \in 1..Len(s) : s[i] = e})
  ELSE 1

\* Array.prototype.findIndex, 1-based; 0 stands for -1
FindIndex(s, e) ==
  IF \E i \in 1..Len(s) : s[i] = e
  THEN Min({i \in 1..Len(s) : s[i] = e})
  ELSE 0


(***************************************************************************)
(* Database (schema.js). A database value d is a record of the tables.     *)
(***************************************************************************)
NoUserRow == [registered |-> FALSE, balance |-> 0, total_bets |-> 0, total_winnings |-> 0]
NoLineRow == [status |-> "none", options |-> <<>>, emojis |-> <<>>, winner_option |-> NULL]
NoBet == [id |-> 0, user_id |-> NULL, line_id |-> 0, option |-> NULL, amount |-> 0]

DB == [users |-> users, lines |-> lines, bets |-> bets, nextBetId |-> nextBetId]

SetDB(d) ==
  /\ users' = d.users
  /\ lines' = d.lines
  /\ bets' = d.bets
  /\ nextBetId' = d.nextBetId

UserExists(d, m) == d.users[m].registered

LineExists(d, l) == d.lines[l].status # "none"

\* INSERT INTO users: balance, total_bets, total_winnings take the column defaults
createUser(d, m) ==
  [d EXCEPT !.users[m] = [registered |-> TRUE, balance |-> DEFAULT_BALANCE,
                          total_bets |-> 0, total_winnings |-> 0]]

\* UPDATE users SET balance = ? WHERE id = ?
updateUserBalance(d, m, newBalance) ==
  IF UserExists(d, m) THEN [d EXCEPT !.users[m].balance = newBalance] ELSE d

\* the stats update that adds to total_winnings whatever the field named
incrementUserStatsWinningsOnly(d, m, field, amount) ==
  IF ~UserExists(d, m) THEN d
  ELSE [d EXCEPT !.users[m].total_winnings = @ + amount]

\* UPDATE users SET <field> = <field> + ? WHERE id = ?
incrementUserStats(d, m, field, amount) ==
  IF ~UserExists(d, m) THEN d
  ELSE IF field = "total_bets"
       THEN [d EXCEPT !.users[m].total_bets = @ + amount]
       ELSE [d EXCEPT !.users[m].total_winnings = @ + amount]

\* the id of the row INSERT INTO betting_lines creates (a fresh uuid)
FreshLineId(d) == Min({l \in LineIds : ~LineExists(d, l)})

\* INSERT INTO betting_lines: status takes the column default 'open'
createBettingLine(d, l, options, emojis) ==
  [d EXCEPT !.lines[l] = [status |-> "open", options |-> options,
                          emojis |-> emojis, winner_option |-> NULL]]

\* the status update that also rewrites the symbols with the default ones
updateBettingLineStatusAndSymbols(d, l, status, winner) ==
  IF ~LineExists(d, l) THEN d
  ELSE [d EXCEPT !.lines[l].status = status,
                 !.lines[l].winner_option = IF winner = NULL THEN @ ELSE winner,
                 !.lines[l].emojis =
                    [i \in 1..Len(@) |-> <<":a:", ":b:", ":c:">>[i]]]

\* UPDATE betting_lines SET status = ?, <additional fields> WHERE id = ?
\* (winner is NULL when winner_option is not among the additional fields)
updateBettingLineStatus(d, l, status, winner) ==
  IF ~LineExists(d, l) THEN d
  ELSE IF winner = NULL
       THEN [d EXCEPT !.lines[l].status = status]
       ELSE [d EXCEPT !.lines[l].status = status, !.lines[l].winner_option = winner]

\* the insert with an amount of 2 in place of the column default
dbPlaceBetDouble(d, m, l, option) ==
  [d EXCEPT !.bets = @ \cup {[id |-> d.nextBetId, user_id |-> m, line_id |-> l,
                              option |-> option, amount |-> 2]},
            !.nextBetId = @ + 1]

\* INSERT INTO bets: amount takes the column default 1
dbPlaceBet(d, m, l, option) ==
  [d EXCEPT !.bets = @ \cup {[id |-> d.nextBetId, user_id |-> m, line_id |-> l,
                              option |-> option, amount |-> 1]},
            !.nextBetId = @ + 1]

\* DELETE FROM bets WHERE id = ?
deleteBet(d, id) == [d EXCEPT !.bets = {b \in @ : b.id # id}]

UserBetsOnLine(d, m, l) == {b \in d.bets : b.user_id = m /\ b.line_id = l}

HasBetOnLine(d, m, l) == UserBetsOnLine(d, m, l) # {}

\* SELECT * FROM bets WHERE user_id = ? AND line_id = ? (db.get: the first row)
getUserBetOnLine(d, m, l) ==
  IF HasBetOnLine(d, m, l)
  THEN CHOOSE b \in UserBetsOnLine(d, m, l) : \A c \in UserBetsOnLine(d, m, l) : b.id <= c.id
  ELSE NoBet

\* the same query without the WHERE clause: the bets of every line
getBetsOfEveryLine(d, l) ==
  SetToSeqById({b \in d.bets : UserExists(d, b.user_id)})

\* SELECT b.* FROM bets b JOIN users u ... WHERE b.line_id = ?
getBetsForLine(d, l) ==
  SetToSeqById({b \in d.bets : b.line_id = l /\ UserExists(d, b.user_id)})

(***************************************************************************)
(* BettingService (bettingService.js), as functions of a database value    *)
(***************************************************************************)
ERR_SAME_OPTION == "You have already bet on this option"
ERR_INSUFFICIENT == "Insufficient balance to place a bet"
ERR_NOT_ACCEPTING == "This betting line is no longer accepting bets"
ERR_LINE_NOT_FOUND == "Betting line not found"
ERR_TYPE == "TypeError: Cannot read properties of undefined"
OK == "ok"

\* String.prototype.toLowerCase on the option texts of the model
ToLowerCase(s) ==
  CASE s = "Yes" -> "yes"
    [] s = "YES" -> "yes"
    [] s = "No" -> "no"
    [] s = "Over" -> "over"
    [] OTHER -> s

\* a membership test that ignores the case of the texts
IncludesIgnoreCase(s, e) == \E i \in 1..Len(s) : ToLowerCase(s[i]) = ToLowerCase(e)

\* Array.prototype.includes on option texts (strict equality)
Includes(s, e) == \E i \in 1..Len(s) : s[i] = e

defaultEmojis == <<":a:", ":b:", ":c:", ":d:", ":e:", ":f:", ":g:", ":h:", ":i:", ":j:">>

customEmojis ==
  [o \in {"yes", "no", "over", "under", "win", "lose", "tie"} |->
     CASE o = "yes" -> ":white_check_mark:"
       [] o = "no" -> ":x:"
       [] o = "over" -> ":chart_with_upwards_trend:"
       [] o = "under" -> ":chart_with_downwards_trend:"
       [] o = "win" -> ":trophy:"
       [] o = "lose" -> ":broken_heart:"
       [] o = "tie" -> ":handshake:"]

\* the property names an object literal ({} or customEmojis) inherits from
\* Object.prototype, among the texts of the model: looking one up yields a function
\* (truthy, with length 1, without push or map)
InheritedNames == {"constructor"}

\* customEmojis[lower] || defaultEmojis[index] || `:${index + 1}:`  (i = index + 1);
\* an inherited function is stored as null by JSON.stringify(emojis)
generateEmojis(options) ==
  [i \in 1..Len(options) |->
     IF ToLowerCase(options[i]) \in DOMAIN customEmojis
     THEN customEmojis[ToLowerCase(options[i])]
     ELSE IF ToLowerCase(options[i]) \in InheritedNames THEN NULL
     ELSE IF i <= Len(defaultEmojis) THEN defaultEmojis[i]
     ELSE ":" \o ToString(i) \o ":"]

\* nameToEmoji[reaction] || `:${reaction}:` : every table entry is ':' + name + ':'
nameToEmoji(reaction) == ":" \o reaction \o ":"

\* the winning bets, every bet counting as a winner when none is on the winning option
WinningBetsOrAll(betSeq, winningOption) ==
  IF SelectSeq(betSeq, LAMBDA b : b.option = winningOption) = <<>> THEN betSeq
  ELSE SelectSeq(betSeq, LAMBDA b : b.option = winningOption)

WinningBets(betSeq, winningOption) ==
  SelectSeq(betSeq, LAMBDA b : b.option = winningOption)

LosingBets(betSeq, winningOption) ==
  SelectSeq(betSeq, LAMBDA b : b.option # winningOption)

\* the winners' entries with the winner's own stake handed back on top of the share
PayoutEntriesWithStake(winningBets, payout) ==
  [i \in 1..Len(winningBets) |->
     [userId |-> winningBets[i].user_id, payout |-> payout + winningBets[i].amount,
      originalBet |-> winningBets[i].amount]]

PayoutEntries(winningBets, payout) ==
  [i \in 1..Len(winningBets) |->
     [userId |-> winningBets[i].user_id, payout |-> payout,
      originalBet |-> winningBets[i].amount]]

\* calculatePayouts with the pot taken over all bets of the line, winners' included
PayoutsFromBetsWholePot(betSeq, winningOption) ==
  LET winningBets == WinningBets(betSeq, winningOption)
      losingBets == LosingBets(betSeq, winningOption)
      totalPot == SumAmount(betSeq)
  IN IF Len(winningBets) = 0
     THEN [payouts |-> <<>>, totalPot |-> totalPot, message |-> "no_winners"]
     ELSE IF Len(losingBets) = 0
     THEN [payouts |-> PayoutEntries(winningBets, 0), totalPot |-> 0,
           message |-> "no_losers"]
     ELSE [payouts |-> PayoutEntries(winningBets, totalPot \div Len(winningBets)),
           totalPot |-> totalPot,
           payoutPerWinner |-> totalPot \div Len(winningBets),
           remainder |-> totalPot % Len(winningBets),
           message |-> "split"]

\* calculatePayouts, from the rows getBetsForLine returned
PayoutsFromBets(betSeq, winningOption) ==
  LET winningBets == WinningBets(betSeq, winningOption)
      losingBets == LosingBets(betSeq, winningOption)
      totalPot == SumAmount(losingBets)
  IN IF Len(winningBets) = 0
     THEN [payouts |-> <<>>, totalPot |-> totalPot, message |-> "no_winners"]
     ELSE IF Len(losingBets) = 0
     THEN [payouts |-> PayoutEntries(winningBets, 0), totalPot |-> 0,
           message |-> "no_losers"]
     ELSE [payouts |-> PayoutEntries(winningBets, totalPot \div Len(winningBets)),
           totalPot |-> totalPot,
           payoutPerWinner |-> totalPot \div Len(winningBets),
           remainder |-> totalPot % Len(winningBets),
           message |-> "split"]

NoPayoutData == [payouts |-> <<>>, totalPot |-> 0, message |-> "none"]

\* calculatePayouts lines 18-26 and 44-61: betsByOption = {} answers an inherited name
\* with a function, so a bet on such an option is pushed onto a function, and with such
\* a winning option winningBets is a function of length 1, not 0, that is then mapped
GroupingThrows(betSeq, winningOption) ==
  \/ \E i \in 1..Len(betSeq) : betSeq[i].option \in InheritedNames
  \/ winningOption \in InheritedNames

calculatePayouts(d, l, winningOption) ==
  IF ~LineExists(d, l)
  THEN [err |-> ERR_LINE_NOT_FOUND, data |-> NoPayoutData]
  ELSE IF GroupingThrows(getBetsForLine(d, l), winningOption)
  THEN [err |-> ERR_TYPE, data |-> NoPayoutData]
  ELSE [err |-> OK, data |-> PayoutsFromBets(getBetsForLine(d, l), winningOption)]

\* the winner's credit with the winner's own stake handed back
CreditWinnerReturnsStake(d, payout) ==
  IF UserExists(d, payout.userId)
  THEN incrementUserStats(
         updateUserBalance(d, payout.userId,
           d.users[payout.userId].balance + payout.payout + payout.originalBet),
         payout.userId, "total_winnings", payout.payout)
  ELSE d

\* the winner's credit without the total_winnings increment
CreditWinnerBalanceOnly(d, payout) ==
  IF UserExists(d, payout.userId)
  THEN updateUserBalance(d, payout.userId, d.users[payout.userId].balance + payout.payout)
  ELSE d

\* one turn of "for (const payout of payoutData.payouts)"
CreditWinner(d, payout) ==
  IF UserExists(d, payout.userId)
  THEN incrementUserStats(
         updateUserBalance(d, payout.userId, d.users[payout.userId].balance + payout.payout),
         payout.userId, "total_winnings", payout.payout)
  ELSE d

\* the loser's debit without the floor at 0
LoserBalanceNoFloor(balance, amount) == balance - amount

\* Math.max(0, user.balance - bet.amount)
LoserBalance(balance, amount) == Max2(0, balance - amount)

\* one turn of "for (const bet of losingBets)"
DebitLoser(d, bet) ==
  IF UserExists(d, bet.user_id)
  THEN updateUserBalance(d, bet.user_id, LoserBalance(d.users[bet.user_id].balance, bet.amount))
  ELSE d

RECURSIVE CreditWinners(_, _)
CreditWinners(d, payouts) ==
  IF payouts = <<>> THEN d
  ELSE CreditWinners(CreditWinner(d, Head(payouts)), Tail(payouts))

RECURSIVE DebitLosers(_, _)
DebitLosers(d, losingBets) ==
  IF losingBets = <<>> THEN d
  ELSE DebitLosers(DebitLoser(d, Head(losingBets)), Tail(losingBets))

processPayouts(d, l, winningOption) ==
  LET r == calculatePayouts(d, l, winningOption)
      d1 == CreditWinners(d, r.data.payouts)
      d2 == DebitLosers(d1, LosingBets(getBetsForLine(d1, l), winningOption))
  IN IF r.err # OK THEN [err |-> r.err, data |-> r.data, db |-> d]
     ELSE [err |-> OK, data |-> r.data, db |-> d2]

\* the refund of a changed bet that leaves the old row in the table
RefundExistingKeepsRow(d, m, existingBet) ==
  incrementUserStats(
    updateUserBalance(d, m, d.users[m].balance + existingBet.amount), m, "total_bets", -1)

\* placeBet lines 147-153: retire the existing bet and refund it
RefundExisting(d, m, existingBet) ==
  LET d1 == deleteBet(d, existingBet.id)
      d2 == updateUserBalance(d1, m, d1.users[m].balance + existingBet.amount)
  IN incrementUserStats(d2, m, "total_bets", -1)

\* the debit and the insert of the new bet without the total_bets increment
CommitBetNoCount(d, m, l, option, balanceRead) ==
  dbPlaceBet(updateUserBalance(d, m, balanceRead - 1), m, l, option)

\* placeBet lines 167-172: debit, count and insert the new bet
CommitBet(d, m, l, option, balanceRead) ==
  dbPlaceBet(
    incrementUserStats(updateUserBalance(d, m, balanceRead - 1), m, "total_bets", 1),
    m, l, option)

\* a test of the existing bet's option that never finds the same option
SameOptionNever(existingBet, option) == FALSE

\* placeBet line 143: existingBet.option === option
SameOption(existingBet, option) == existingBet.option = option

\* a balance test that only rejects a balance below 0
BalanceBelowZero(balance) == balance < 0

\* placeBet line 158: user.balance < 1
InsufficientBalance(balance) == balance < 1

placeBet(d, m, l, option) ==
  LET existingBet == getUserBetOnLine(d, m, l)
      has == HasBetOnLine(d, m, l)
      d1 == IF has /\ ~SameOption(existingBet, option)
            THEN RefundExisting(d, m, existingBet) ELSE d
  IN IF ~UserExists(d, m) THEN [err |-> ERR_TYPE, db |-> d]
     ELSE IF has /\ SameOption(existingBet, option) THEN [err |-> ERR_SAME_OPTION, db |-> d]
     ELSE IF InsufficientBalance(d1.users[m].balance) THEN [err |-> ERR_INSUFFICIENT, db |-> d1]
     ELSE IF ~LineExists(d1, l) \/ d1.lines[l].status # "open"
          THEN [err |-> ERR_NOT_ACCEPTING, db |-> d1]
     ELSE [err |-> OK, db |-> CommitBet(d1, m, l, option, d1.users[m].balance)]

(***************************************************************************)
(* Initial state: an empty database, no handler running                    *)
(***************************************************************************)
NoLoc == [m |-> NULL, l |-> 0, arg |-> NULL, balance |-> 0, bet |-> NoBet, queue |-> <<>>]

\* line and arg are recorded for a completed resolution only
NoOp == [op |-> "none", line |-> 0, arg |-> NULL, outcome |-> "none", data |-> NoPayoutData]

Init ==
  /\ users = [m \in Members |-> NoUserRow]
  /\ lines = [l \in LineIds |-> NoLineRow]
  /\ bets = {}
  /\ nextBetId = 1
  /\ payoutRuns = [l \in LineIds |-> 0]
  /\ lastOp = NoOp
  /\ pc = [p \in Procs |-> "idle"]
  /\ loc = [p \in Procs |-> NoLoc]
  /\ events = 0

Quiescent == \A p \in Procs : pc[p] = "idle"

(***************************************************************************)
(* Slack handlers (slackHandlers.js), each run to completion               *)
(***************************************************************************)
isAdmin(userId) == TRUE

Done(op, outcome, data) ==
  /\ lastOp' = [NoOp EXCEPT !.op = op, !.outcome = outcome, !.data = data]
  /\ events' = events + 1
  /\ UNCHANGED <<pc, loc>>

\* /bet create "question" options: ...
HandleCreateLine(u, options) ==
  /\ Quiescent
  /\ events < MaxSeqEvents
  /\ \E l \in LineIds : ~LineExists(DB, l)
  /\ IF ~isAdmin(u)
     THEN /\ UNCHANGED <<users, lines, bets, nextBetId, payoutRuns>>
          /\ Done("create", "not_admin", NoPayoutData)
     ELSE IF Len(options) < 2
     THEN /\ UNCHANGED <<users, lines, bets, nextBetId, payoutRuns>>
          /\ Done("create", "too_few_options", NoPayoutData)
     ELSE LET l == FreshLineId(DB)
              d1 == createBettingLine(DB, l, options, generateEmojis(options))
          IN /\ SetDB(updateBettingLineStatus(d1, l, "open", NULL))
             /\ UNCHANGED payoutRuns
             /\ Done("create", "created", NoPayoutData)

\* String.prototype.trim on the entries of the model
Trim(s) ==
  CASE s = " under" -> "under"
    [] s = " red" -> "red"
    [] s = "blue " -> "blue"
    [] s = " " -> ""
    [] OTHER -> s

\* the split and trimmed entries, empty ones kept
ParseOptionsKeepEmpty(raw) == [i \in 1..Len(raw) |-> Trim(raw[i])]

\* optionsMatch[1].split(',').map((s) => s.trim()).filter(Boolean), from the entries
\* between the commas
ParseOptions(raw) == SelectSeq([i \in 1..Len(raw) |-> Trim(raw[i])], LAMBDA o : o # "")

\* /bet create "question" options: <raw>, with the text after "options:" as typed
HandleCreateCommand(u, raw) == HandleCreateLine(u, ParseOptions(raw))

\* /bet lock without the check of the line's status
HandleLockLineAnyStatus(u, l) ==
  /\ Quiescent
  /\ events < MaxSeqEvents
  /\ IF ~isAdmin(u)
     THEN /\ UNCHANGED <<users, lines, bets, nextBetId, payoutRuns>>
          /\ Done("lock", "not_admin", NoPayoutData)
     ELSE IF ~LineExists(DB, l)
     THEN /\ UNCHANGED <<users, lines, bets, nextBetId, payoutRuns>>
          /\ Done("lock", "not_found", NoPayoutData)
     ELSE /\ SetDB(updateBettingLineStatus(DB, l, "locked", NULL))
          /\ UNCHANGED payoutRuns
          /\ Done("lock", "locked", NoPayoutData)

\* /bet lock <line_id>
HandleLockLine(u, l) ==
  /\ Quiescent
  /\ events < MaxSeqEvents
  /\ IF ~isAdmin(u)
     THEN /\ UNCHANGED <<users, lines, bets, nextBetId, payoutRuns>>
          /\ Done("lock", "not_admin", NoPayoutData)
     ELSE IF ~LineExists(DB, l)
     THEN /\ UNCHANGED <<users, lines, bets, nextBetId, payoutRuns>>
          /\ Done("lock", "not_found", NoPayoutData)
     ELSE IF lines[l].status # "open"
     THEN /\ UNCHANGED <<users, lines, bets, nextBetId, payoutRuns>>
          /\ Done("lock", "not_open", NoPayoutData)
     ELSE /\ SetDB(updateBettingLineStatus(DB, l, "locked", NULL))
          /\ UNCHANGED payoutRuns
          /\ Done("lock", "locked", NoPayoutData)

\* handleResolveLine as a function of the database: the answer, the database it leaves
\* and the payout data it reports
ResolveLineResult(d, u, l, winningOption) ==
  IF ~isAdmin(u)
  THEN [outcome |-> "not_admin", db |-> d, data |-> NoPayoutData]
  ELSE IF ~LineExists(d, l)
  THEN [outcome |-> "not_found", db |-> d, data |-> NoPayoutData]
  ELSE IF ~Includes(d.lines[l].options, winningOption)
  THEN [outcome |-> "invalid_option", db |-> d, data |-> NoPayoutData]
  ELSE LET r == processPayouts(d, l, winningOption)
       IN IF r.err # OK
          THEN [outcome |-> r.err, db |-> d, data |-> NoPayoutData]
          ELSE [outcome |-> "resolved",
                db |-> updateBettingLineStatus(r.db, l, "resolved", winningOption),
                data |-> r.data]

\* /bet resolve <line_id> winner: <option>
HandleResolveLine(u, l, winningOption) ==
  /\ Quiescent
  /\ events < MaxSeqEvents
  /\ LET r == ResolveLineResult(DB, u, l, winningOption)
     IN IF r.outcome # "resolved"
        THEN /\ UNCHANGED <<users, lines, bets, nextBetId, payoutRuns>>
             /\ Done("resolve", r.outcome, NoPayoutData)
        ELSE /\ SetDB(r.db)
             /\ payoutRuns' = [payoutRuns EXCEPT ![l] = @ + 1]
             /\ lastOp' = [op |-> "resolve", line |-> l, arg |-> winningOption,
                           outcome |-> "resolved", data |-> r.data]
             /\ events' = events + 1
             /\ UNCHANGED <<pc, loc>>

\* handleReactionAdded as a function of the database: what became of the signal and
\* the database it leaves
ReactionAddedResult(d, m, l, reaction) ==
  IF ~LineExists(d, l) \/ d.lines[l].status # "open"
     \/ FindIndex(d.lines[l].emojis, nameToEmoji(reaction)) = 0
  THEN [outcome |-> "ignored", db |-> d]
  ELSE LET selectedOption ==
             d.lines[l].options[FindIndex(d.lines[l].emojis, nameToEmoji(reaction))]
           d1 == IF UserExists(d, m) THEN d ELSE createUser(d, m)
           r == placeBet(d1, m, l, selectedOption)
       IN [outcome |-> IF r.err = OK THEN "confirmed" ELSE r.err, db |-> r.db]

\* reaction_added on the card of line l
HandleReactionAdded(m, l, reaction) ==
  /\ Quiescent
  /\ events < MaxSeqEvents
  /\ UNCHANGED payoutRuns
  /\ LET r == ReactionAddedResult(DB, m, l, reaction)
     IN /\ SetDB(r.db)
        /\ Done("added", r.outcome, NoPayoutData)

\* the withdrawal that deletes the bet and counts it off without refunding it
WithdrawBetNoRefund(d, m, userBet, balanceRead) ==
  incrementUserStats(deleteBet(d, userBet.id), m, "total_bets", -1)

\* the withdrawal that leaves total_bets as it was
WithdrawBetKeepsCount(d, m, userBet, balanceRead) ==
  updateUserBalance(deleteBet(d, userBet.id), m, balanceRead + userBet.amount)

\* lines 561-567: delete the bet, refund from the balance read with the user row
WithdrawBet(d, m, userBet, balanceRead) ==
  incrementUserStats(
    updateUserBalance(deleteBet(d, userBet.id), m, balanceRead + userBet.amount),
    m, "total_bets", -1)

\* the handler without the comparison of the decoded option with the bet's option
ReactionRemovedAnySymbol(d, m, l, reaction) ==
  IF \/ ~LineExists(d, l)
     \/ d.lines[l].status # "open"
     \/ ~UserExists(d, m)
     \/ ~HasBetOnLine(d, m, l)
     \/ FindIndex(d.lines[l].emojis, nameToEmoji(reaction)) = 0
  THEN [outcome |-> "ignored", db |-> d]
  ELSE [outcome |-> "removed",
        db |-> WithdrawBet(d, m, getUserBetOnLine(d, m, l), d.users[m].balance)]

\* handleReactionRemoved as a function of the database
ReactionRemovedResult(d, m, l, reaction) ==
  IF \/ ~LineExists(d, l)
     \/ d.lines[l].status # "open"
     \/ ~UserExists(d, m)
     \/ ~HasBetOnLine(d, m, l)
     \/ FindIndex(d.lines[l].emojis, nameToEmoji(reaction)) = 0
  THEN [outcome |-> "ignored", db |-> d]
  ELSE LET selectedOption ==
             d.lines[l].options[FindIndex(d.lines[l].emojis, nameToEmoji(reaction))]
           userBet == getUserBetOnLine(d, m, l)
       IN IF userBet.option # selectedOption
          THEN [outcome |-> "ignored", db |-> d]
          ELSE [outcome |-> "removed",
                db |-> WithdrawBet(d, m, userBet, d.users[m].balance)]

\* reaction_removed on the card of line l
HandleReactionRemoved(m, l, reaction) ==
  /\ Quiescent
  /\ events < MaxSeqEvents
  /\ UNCHANGED payoutRuns
  /\ LET r == ReactionRemovedResult(DB, m, l, reaction)
     IN /\ SetDB(r.db)
        /\ Done("removed", r.outcome, NoPayoutData)

NextSeq ==
  \/ \E u \in Members, options \in OptionInputs : HandleCreateLine(u, options)
  \/ \E u \in Members, l \in LineIds : HandleLockLine(u, l)
  \/ \E u \in Members, l \in LineIds, w \in Winners : HandleResolveLine(u, l, w)
  \/ \E m \in Members, l \in LineIds, r \in Reactions : HandleReactionAdded(m, l, r)
  \/ \E m \in Members, l \in LineIds, r \in Reactions : HandleReactionRemoved(m, l, r)

SpecSeq == Init /\ [][NextSeq]_vars

\* option lists whose texts differ in case only, beside the usual ones
CaseOptionInputs == {<<"Over", "over">>, <<"over", "under">>, <<"solo">>}

\* one operator who also types option texts that differ in case only
NextSeqCase ==
  \/ \E options \in CaseOptionInputs : HandleCreateLine("M1", options)
  \/ \E l \in LineIds : HandleLockLine("M1", l)
  \/ \E l \in LineIds, w \in Winners : HandleResolveLine("M1", l, w)
  \/ \E m \in Members, l \in LineIds, r \in Reactions : HandleReactionAdded(m, l, r)
  \/ \E m \in Members, l \in LineIds, r \in Reactions : HandleReactionRemoved(m, l, r)

SpecSeqCase == Init /\ [][NextSeqCase]_vars

\* the handlers with create-line commands taken as typed
NextSeqRaw ==
  \/ \E u \in Members, raw \in RawOptionInputs : HandleCreateCommand(u, raw)
  \/ \E u \in Members, l \in LineIds : HandleLockLine(u, l)
  \/ \E u \in Members, l \in LineIds, w \in Winners : HandleResolveLine(u, l, w)
  \/ \E m \in Members, l \in LineIds, r \in Reactions : HandleReactionAdded(m, l, r)
  \/ \E m \in Members, l \in LineIds, r \in Reactions : HandleReactionRemoved(m, l, r)

SpecSeqRaw == Init /\ [][NextSeqRaw]_vars

\* the handlers with operators who also type option texts such as "constructor"
NextSeqNames ==
  \/ \E u \in Members, options \in NamedOptionInputs : HandleCreateLine(u, options)
  \/ \E u \in Members, l \in LineIds : HandleLockLine(u, l)
  \/ \E u \in Members, l \in LineIds, w \in NamedWinners : HandleResolveLine(u, l, w)
  \/ \E m \in Members, l \in LineIds, r \in Reactions : HandleReactionAdded(m, l, r)
  \/ \E m \in Members, l \in LineIds, r \in Reactions : HandleReactionRemoved(m, l, r)

SpecSeqNames == Init /\ [][NextSeqNames]_vars

\* the empty database but for M1, who has one unit left after ten bets on earlier
\* lines (rows of lines other than the modelled ones)
InitSeqLow ==
  /\ users = [m \in Members |->
                IF m = "M1"
                THEN [registered |-> TRUE, balance |-> 1, total_bets |-> 10,
                      total_winnings |-> 0]
                ELSE NoUserRow]
  /\ lines = [l \in LineIds |-> NoLineRow]
  /\ bets = {}
  /\ nextBetId = 1
  /\ payoutRuns = [l \in LineIds |-> 0]
  /\ lastOp = NoOp
  /\ pc = [p \in Procs |-> "idle"]
  /\ loc = [p \in Procs |-> NoLoc]
  /\ events = 0

SpecSeqLow == InitSeqLow /\ [][NextSeq]_vars

(***************************************************************************)
(* The same handlers as interleaving processes: one step per awaited       *)
(* database call. Slot p runs one handler at a time; loc[p] holds what the *)
(* handler has read so far (m, l, arg = the selected or winning option,    *)
(* balance = the balance last read, bet = the bet row read, queue = the    *)
(* rest of the loop it is in).                                             *)
(***************************************************************************)
Goto(p, label, local) ==
  /\ pc' = [pc EXCEPT ![p] = label]
  /\ loc' = [loc EXCEPT ![p] = IF label = "idle" THEN NoLoc ELSE local]

Accept(p) ==
  /\ pc[p] = "idle"
  /\ events < MaxConcEvents
  /\ events' = events + 1
  /\ UNCHANGED lastOp

Step(p, label) ==
  /\ pc[p] = label
  /\ UNCHANGED <<events, lastOp>>

\* handleReactionAdded lines 371-430: read the line, check it is open, decode the symbol
StartAdded(p, m, l, reaction) ==
  /\ Accept(p)
  /\ UNCHANGED <<users, lines, bets, nextBetId, payoutRuns>>
  /\ IF ~LineExists(DB, l) \/ lines[l].status # "open"
        \/ FindIndex(lines[l].emojis, nameToEmoji(reaction)) = 0
     THEN Goto(p, "idle", NoLoc)
     ELSE Goto(p, "a_getUser",
               [NoLoc EXCEPT !.m = m, !.l = l,
                  !.arg = lines[l].options[FindIndex(lines[l].emojis, nameToEmoji(reaction))]])

\* line 433: getUserBySlackId
AddedGetUser(p) ==
  /\ Step(p, "a_getUser")
  /\ UNCHANGED <<users, lines, bets, nextBetId, payoutRuns>>
  /\ Goto(p, IF UserExists(DB, loc[p].m) THEN "pb_getBet" ELSE "a_createUser", loc[p])

\* line 436: createUser; the UNIQUE slack_user_id rejects a second row for the member
AddedCreateUser(p) ==
  /\ Step(p, "a_createUser")
  /\ UNCHANGED payoutRuns
  /\ IF UserExists(DB, loc[p].m)
     THEN /\ UNCHANGED <<users, lines, bets, nextBetId>>
          /\ Goto(p, "idle", NoLoc)
     ELSE /\ SetDB(createUser(DB, loc[p].m))
          /\ Goto(p, "pb_getBet", loc[p])

\* placeBet lines 139-145: getUserBetOnLine
PlaceGetBet(p) ==
  /\ Step(p, "pb_getBet")
  /\ UNCHANGED <<users, lines, bets, nextBetId, payoutRuns>>
  /\ IF ~HasBetOnLine(DB, loc[p].m, loc[p].l)
     THEN Goto(p, "pb_getUser", loc[p])
     ELSE IF SameOption(getUserBetOnLine(DB, loc[p].m, loc[p].l), loc[p].arg)
     THEN Goto(p, "idle", NoLoc)
     ELSE Goto(p, "pb_delete",
               [loc[p] EXCEPT !.bet = getUserBetOnLine(DB, loc[p].m, loc[p].l)])

\* placeBet lines 148-150: the DELETE is issued without waiting for its result and
\* getUserStats is issued right behind it, so the two run back to back
PlaceDelete(p) ==
  /\ Step(p, "pb_delete")
  /\ UNCHANGED payoutRuns
  /\ SetDB(deleteBet(DB, loc[p].bet.id))
  /\ Goto(p, "pb_refund", [loc[p] EXCEPT !.balance = users[loc[p].m].balance])

\* placeBet lines 151-152
PlaceRefund(p) ==
  /\ Step(p, "pb_refund")
  /\ UNCHANGED payoutRuns
  /\ SetDB(updateUserBalance(DB, loc[p].m, loc[p].balance + loc[p].bet.amount))
  /\ Goto(p, "pb_decr", loc[p])

\* placeBet line 153
PlaceDecrement(p) ==
  /\ Step(p, "pb_decr")
  /\ UNCHANGED payoutRuns
  /\ SetDB(incrementUserStats(DB, loc[p].m, "total_bets", -1))
  /\ Goto(p, "pb_getUser", loc[p])

\* placeBet lines 157-160
PlaceGetUser(p) ==
  /\ Step(p, "pb_getUser")
  /\ UNCHANGED <<users, lines, bets, nextBetId, payoutRuns>>
  /\ IF InsufficientBalance(users[loc[p].m].balance)
     THEN Goto(p, "idle", NoLoc)
     ELSE Goto(p, "pb_getLine", [loc[p] EXCEPT !.balance = users[loc[p].m].balance])

\* placeBet lines 162-165
PlaceGetLine(p) ==
  /\ Step(p, "pb_getLine")
  /\ UNCHANGED <<users, lines, bets, nextBetId, payoutRuns>>
  /\ IF ~LineExists(DB, loc[p].l) \/ lines[loc[p].l].status # "open"
     THEN Goto(p, "idle", NoLoc)
     ELSE Goto(p, "pb_debit", loc[p])

\* placeBet lines 168-169
PlaceDebit(p) ==
  /\ Step(p, "pb_debit")
  /\ UNCHANGED payoutRuns
  /\ SetDB(updateUserBalance(DB, loc[p].m, loc[p].balance - 1))
  /\ Goto(p, "pb_incr", loc[p])

\* placeBet line 170
PlaceIncrement(p) ==
  /\ Step(p, "pb_incr")
  /\ UNCHANGED payoutRuns
  /\ SetDB(incrementUserStats(DB, loc[p].m, "total_bets", 1))
  /\ Goto(p, "pb_insert", loc[p])

\* placeBet line 172
PlaceInsert(p) ==
  /\ Step(p, "pb_insert")
  /\ UNCHANGED payoutRuns
  /\ SetDB(dbPlaceBet(DB, loc[p].m, loc[p].l, loc[p].arg))
  /\ Goto(p, "idle", NoLoc)

\* handleReactionRemoved lines 516-520
StartRemoved(p, m, l, reaction) ==
  /\ Accept(p)
  /\ UNCHANGED <<users, lines, bets, nextBetId, payoutRuns>>
  /\ IF ~LineExists(DB, l) \/ lines[l].status # "open"
     THEN Goto(p, "idle", NoLoc)
     ELSE Goto(p, "r_getUser", [NoLoc EXCEPT !.m = m, !.l = l, !.arg = reaction])

\* lines 523-527: the user row, balance included
RemovedGetUser(p) ==
  /\ Step(p, "r_getUser")
  /\ UNCHANGED <<users, lines, bets, nextBetId, payoutRuns>>
  /\ IF ~UserExists(DB, loc[p].m)
     THEN Goto(p, "idle", NoLoc)
     ELSE Goto(p, "r_getBet", [loc[p] EXCEPT !.balance = users[loc[p].m].balance])

\* lines 530-559: the member's bet, then the symbol checks (no database call between)
RemovedGetBet(p) ==
  /\ Step(p, "r_getBet")
  /\ UNCHANGED <<users, lines, bets, nextBetId, payoutRuns>>
  /\ LET l == loc[p].l
         i == FindIndex(lines[l].emojis, nameToEmoji(loc[p].arg))
         userBet == getUserBetOnLine(DB, loc[p].m, l)
     IN IF ~HasBetOnLine(DB, loc[p].m, l) \/ i = 0
        THEN Goto(p, "idle", NoLoc)
        ELSE IF userBet.option # lines[l].options[i]
        THEN Goto(p, "idle", NoLoc)
        ELSE Goto(p, "r_delete", [loc[p] EXCEPT !.bet = userBet])

\* lines 562-566: the DELETE is not waited for; the balance UPDATE follows it directly
RemovedDelete(p) ==
  /\ Step(p, "r_delete")
  /\ UNCHANGED payoutRuns
  /\ SetDB(updateUserBalance(deleteBet(DB, loc[p].bet.id), loc[p].m,
                             loc[p].balance + loc[p].bet.amount))
  /\ Goto(p, "r_decr", loc[p])

\* line 567
RemovedDecrement(p) ==
  /\ Step(p, "r_decr")
  /\ UNCHANGED payoutRuns
  /\ SetDB(incrementUserStats(DB, loc[p].m, "total_bets", -1))
  /\ Goto(p, "idle", NoLoc)

\* handleLockLine lines 171-179
StartLock(p, l) ==
  /\ Accept(p)
  /\ UNCHANGED <<users, lines, bets, nextBetId, payoutRuns>>
  /\ IF ~LineExists(DB, l) \/ lines[l].status # "open"
     THEN Goto(p, "idle", NoLoc)
     ELSE Goto(p, "l_update", [NoLoc EXCEPT !.l = l])

\* line 181
LockUpdate(p) ==
  /\ Step(p, "l_update")
  /\ UNCHANGED payoutRuns
  /\ SetDB(updateBettingLineStatus(DB, loc[p].l, "locked", NULL))
  /\ Goto(p, "idle", NoLoc)

\* handleResolveLine lines 215-225
StartResolve(p, l, winningOption) ==
  /\ Accept(p)
  /\ UNCHANGED <<users, lines, bets, nextBetId, payoutRuns>>
  /\ IF ~LineExists(DB, l) \/ ~Includes(lines[l].options, winningOption)
     THEN Goto(p, "idle", NoLoc)
     ELSE Goto(p, "v_calc", [NoLoc EXCEPT !.l = l, !.arg = winningOption])

LoopOr(queue, inLoop, after) == IF queue = <<>> THEN after ELSE inLoop

\* processPayouts line 79: calculatePayouts reads the line (rows are never deleted) and
\* the bets of the line
ResolveCalculate(p) ==
  /\ Step(p, "v_calc")
  /\ UNCHANGED <<users, lines, bets, nextBetId>>
  /\ LET r == calculatePayouts(DB, loc[p].l, loc[p].arg)
     IN IF r.err # OK
        THEN /\ UNCHANGED payoutRuns
             /\ Goto(p, "idle", NoLoc)
        ELSE /\ payoutRuns' = [payoutRuns EXCEPT ![loc[p].l] = @ + 1]
             /\ Goto(p, LoopOr(r.data.payouts, "v_winRead", "v_getBets"),
                     [loc[p] EXCEPT !.queue = r.data.payouts])

\* processPayouts line 83
ResolveWinnerRead(p) ==
  /\ Step(p, "v_winRead")
  /\ UNCHANGED <<users, lines, bets, nextBetId, payoutRuns>>
  /\ Goto(p, "v_winWrite", [loc[p] EXCEPT !.balance = users[Head(loc[p].queue).userId].balance])

\* processPayouts lines 85-86
ResolveWinnerWrite(p) ==
  /\ Step(p, "v_winWrite")
  /\ UNCHANGED payoutRuns
  /\ SetDB(updateUserBalance(DB, Head(loc[p].queue).userId,
                             loc[p].balance + Head(loc[p].queue).payout))
  /\ Goto(p, "v_winStat", loc[p])

\* processPayouts line 87
ResolveWinnerStat(p) ==
  /\ Step(p, "v_winStat")
  /\ UNCHANGED payoutRuns
  /\ SetDB(incrementUserStats(DB, Head(loc[p].queue).userId, "total_winnings",
                              Head(loc[p].queue).payout))
  /\ Goto(p, LoopOr(Tail(loc[p].queue), "v_winRead", "v_getBets"),
          [loc[p] EXCEPT !.queue = Tail(@), !.balance = 0])

\* processPayouts lines 92-93
ResolveGetBets(p) ==
  /\ Step(p, "v_getBets")
  /\ UNCHANGED <<users, lines, bets, nextBetId, payoutRuns>>
  /\ LET losingBets == LosingBets(getBetsForLine(DB, loc[p].l), loc[p].arg)
     IN Goto(p, LoopOr(losingBets, "v_loseRead", "v_status"),
             [loc[p] EXCEPT !.queue = losingBets])

\* processPayouts line 96
ResolveLoserRead(p) ==
  /\ Step(p, "v_loseRead")
  /\ UNCHANGED <<users, lines, bets, nextBetId, payoutRuns>>
  /\ Goto(p, "v_loseWrite", [loc[p] EXCEPT !.balance = users[Head(loc[p].queue).user_id].balance])

\* processPayouts lines 98-99
ResolveLoserWrite(p) ==
  /\ Step(p, "v_loseWrite")
  /\ UNCHANGED payoutRuns
  /\ SetDB(updateUserBalance(DB, Head(loc[p].queue).user_id,
                             LoserBalance(loc[p].balance, Head(loc[p].queue).amount)))
  /\ Goto(p, LoopOr(Tail(loc[p].queue), "v_loseRead", "v_status"),
          [loc[p] EXCEPT !.queue = Tail(@), !.balance = 0])

\* handleResolveLine lines 229-232
ResolveStatus(p) ==
  /\ Step(p, "v_status")
  /\ UNCHANGED payoutRuns
  /\ SetDB(updateBettingLineStatus(DB, loc[p].l, "resolved", loc[p].arg))
  /\ Goto(p, "idle", NoLoc)

\* handleCreateLine lines 102-117: INSERT the line
StartCreate(p, options) ==
  /\ Accept(p)
  /\ UNCHANGED payoutRuns
  /\ \E l \in LineIds : ~LineExists(DB, l)
  /\ IF Len(options) < 2
     THEN /\ UNCHANGED <<users, lines, bets, nextBetId>>
          /\ Goto(p, "idle", NoLoc)
     ELSE /\ SetDB(createBettingLine(DB, FreshLineId(DB), options, generateEmojis(options)))
          /\ Goto(p, "c_update", [NoLoc EXCEPT !.l = FreshLineId(DB)])

\* handleCreateLine lines 126-130, after the card (which shows the line id) is posted
CreateUpdate(p) ==
  /\ Step(p, "c_update")
  /\ UNCHANGED payoutRuns
  /\ SetDB(updateBettingLineStatus(DB, loc[p].l, "open", NULL))
  /\ Goto(p, "idle", NoLoc)

ConcReactions == {"chart_with_upwards_trend", "chart_with_downwards_trend", "thumbsup"}
ConcWinners == {"over", "under", "nobody"}

\* the state after one completed '/bet create "..." options: over, under'
InitConc ==
  /\ users = [m \in Members |-> NoUserRow]
  /\ lines = [l \in LineIds |->
                IF l = 1
                THEN [status |-> "open", options |-> <<"over", "under">>,
                      emojis |-> generateEmojis(<<"over", "under">>),
                      winner_option |-> NULL]
                ELSE NoLineRow]
  /\ bets = {}
  /\ nextBetId = 1
  /\ payoutRuns = [l \in LineIds |-> 0]
  /\ lastOp = NoOp
  /\ pc = [p \in Procs |-> "idle"]
  /\ loc = [p \in Procs |-> NoLoc]
  /\ events = 0

NextConc ==
  \/ \E p \in Procs, m \in ConcMembers, l \in ConcLineIds, r \in ConcReactions : StartAdded(p, m, l, r)
  \/ \E p \in Procs : AddedGetUser(p)
  \/ \E p \in Procs : AddedCreateUser(p)
  \/ \E p \in Procs : PlaceGetBet(p)
  \/ \E p \in Procs : PlaceDelete(p)
  \/ \E p \in Procs : PlaceRefund(p)
  \/ \E p \in Procs : PlaceDecrement(p)
  \/ \E p \in Procs : PlaceGetUser(p)
  \/ \E p \in Procs : PlaceGetLine(p)
  \/ \E p \in Procs : PlaceDebit(p)
  \/ \E p \in Procs : PlaceIncrement(p)
  \/ \E p \in Procs : PlaceInsert(p)
  \/ \E p \in Procs, m \in ConcMembers, l \in ConcLineIds, r \in ConcReactions : StartRemoved(p, m, l, r)
  \/ \E p \in Procs : RemovedGetUser(p)
  \/ \E p \in Procs : RemovedGetBet(p)
  \/ \E p \in Procs : RemovedDelete(p)
  \/ \E p \in Procs : RemovedDecrement(p)
  \/ \E p \in Procs, l \in ConcLineIds : StartLock(p, l)
  \/ \E p \in Procs : LockUpdate(p)
  \/ \E p \in Procs, l \in ConcLineIds, w \in ConcWinners : StartResolve(p, l, w)
  \/ \E p \in Procs : ResolveCalculate(p)
  \/ \E p \in Procs : ResolveWinnerRead(p)
  \/ \E p \in Procs : ResolveWinnerWrite(p)
  \/ \E p \in Procs : ResolveWinnerStat(p)
  \/ \E p \in Procs : ResolveGetBets(p)
  \/ \E p \in Procs : ResolveLoserRead(p)
  \/ \E p \in Procs : ResolveLoserWrite(p)
  \/ \E p \in Procs : ResolveStatus(p)

SpecConc == InitConc /\ [][NextConc]_vars

\* one unit left: M1 has placed ten bets on earlier lines (nine lost, one won with no
\* loser to pay), whose rows belong to lines other than the modelled one
InitConcLow ==
  /\ users = [m \in Members |->
                IF m = "M1"
                THEN [registered |-> TRUE, balance |-> 1, total_bets |-> 10,
                      total_winnings |-> 0]
                ELSE NoUserRow]
  /\ lines = [l \in LineIds |->
                IF l = 1
                THEN [status |-> "open", options |-> <<"over", "under">>,
                      emojis |-> generateEmojis(<<"over", "under">>),
                      winner_option |-> NULL]
                ELSE NoLineRow]
  /\ bets = {}
  /\ nextBetId = 1
  /\ payoutRuns = [l \in LineIds |-> 0]
  /\ lastOp = NoOp
  /\ pc = [p \in Procs |-> "idle"]
  /\ loc = [p \in Procs |-> NoLoc]
  /\ events = 0

SpecConcLow == InitConcLow /\ [][NextConc]_vars

ConcOptionInputs == {<<"over", "under">>, <<"solo">>}

NextConcCreate ==
  \/ NextConc
  \/ \E p \in Procs, options \in ConcOptionInputs : StartCreate(p, options)
  \/ \E p \in Procs : CreateUpdate(p)

\* from the empty database, /bet create interleaving with the other handlers
SpecConcCreate == Init /\ [][NextConcCreate]_vars

(***************************************************************************)
(* Direct calls of the service, as test/test.js makes them                  *)
(***************************************************************************)
OptionTexts == {"over", "under"}

\* bettingService.placeBet(user.id, line.id, option)
SvcPlaceBet(m, l, option) ==
  /\ Quiescent
  /\ events < MaxSeqEvents
  /\ UserExists(DB, m)
  /\ UNCHANGED payoutRuns
  /\ LET r == placeBet(DB, m, l, option)
     IN /\ SetDB(r.db)
        /\ Done("placeBet", r.err, NoPayoutData)

\* a payout computation that also applies what it computed
SvcCalculateAndApply(l, winningOption) ==
  /\ Quiescent
  /\ events < MaxSeqEvents
  /\ UNCHANGED <<payoutRuns, pc, loc>>
  /\ LET r == processPayouts(DB, l, winningOption)
     IN /\ SetDB(r.db)
        /\ lastOp' = [op |-> "calculate", line |-> l, arg |-> winningOption,
                      outcome |-> r.err, data |-> r.data]
        /\ events' = events + 1

\* bettingService.calculatePayouts(line.id, option): reads the line and its bets and
\* returns the payout data (or throws)
SvcCalculatePayouts(l, winningOption) ==
  /\ Quiescent
  /\ events < MaxSeqEvents
  /\ UNCHANGED <<users, lines, bets, nextBetId, payoutRuns, pc, loc>>
  /\ LET r == calculatePayouts(DB, l, winningOption)
     IN /\ lastOp' = [op |-> "calculate", line |-> l, arg |-> winningOption,
                      outcome |-> r.err, data |-> r.data]
        /\ events' = events + 1

\* one operator, the option lists, symbols and winners of the interleaved model
NextCalc ==
  \/ \E options \in ConcOptionInputs : HandleCreateLine("M1", options)
  \/ \E l \in LineIds : HandleLockLine("M1", l)
  \/ \E l \in LineIds, w \in ConcWinners : HandleResolveLine("M1", l, w)
  \/ \E m \in Members, l \in LineIds, r \in ConcReactions : HandleReactionAdded(m, l, r)
  \/ \E m \in Members, l \in LineIds, r \in ConcReactions : HandleReactionRemoved(m, l, r)
  \/ \E l \in LineIds, w \in ConcWinners : SvcCalculatePayouts(l, w)

\* the handlers and direct payout computations, as test/test.js (test 5) makes them
SpecCalc == Init /\ [][NextCalc]_vars

NextApi ==
  \/ NextSeq
  \/ \E m \in Members, l \in LineIds, o \in OptionTexts : SvcPlaceBet(m, l, o)

SpecApi == Init /\ [][NextApi]_vars

(***************************************************************************)
(* Properties                                                              *)
(***************************************************************************)
BetCount(m, l) == Cardinality(UserBetsOnLine(DB, m, l))

LineBets(l) == {b \in bets : b.line_id = l}

\* C1: with every event handled to completion before the next one starts, every
\* (member, line) pair has at most one bet row.
C1_AtMostOneBetPerPair == \A m \in Members, l \in LineIds : BetCount(m, l) <= 1

\* C1 witness: a member has switched option: the second bet ever placed replaced the
\* first (create, signal-added, signal-added for the other option).
C1_SwitchedOnce ==
  /\ events = 3
  /\ lastOp.op = "added" /\ lastOp.outcome = "confirmed"
  /\ \E b \in bets : bets = {b} /\ b.id = 2

\* C2: two signal-added events for one member and one open line, handled concurrently,
\* never both create a bet: once both handlers are done, the pair has at most one bet row
\* and the member has been debited at most one unit.
C2_ConcurrentAddsOneBet ==
  (Quiescent /\ events = 2 /\ \A l \in LineIds : payoutRuns[l] = 0)
    => \A m \in Members, l \in LineIds :
         /\ BetCount(m, l) <= 1
         /\ users[m].registered => users[m].balance >= DEFAULT_BALANCE - 1

\* C3: under any interleaving of the handlers, every member's balance is an
\* integer >= 0.
C3_BalanceNonNegative == \A m \in Members : users[m].balance \in Nat

\* C3 witness: a member with no unit left holds a losing bet on a line whose payouts
\* have been applied (the debit met a balance of 0).
C3_LoserAtZero ==
  /\ lines[1].status = "resolved"
  /\ \E b \in LineBets(1) :
       /\ b.option # lines[1].winner_option
       /\ users[b.user_id].balance = 0

\* C4: a resolve-line command on a line that is already resolved is rejected and changes
\* neither the line, nor a bet, nor a member's balance or total_winnings, whatever the
\* winning option.
C4_ResolveResolvedRejected ==
  [][\A u \in Members, l \in LineIds, w \in Winners :
       (HandleResolveLine(u, l, w) /\ lines[l].status = "resolved")
         => /\ lastOp'.outcome # "resolved"
            /\ UNCHANGED <<users, lines, bets>>]_vars

\* C5: for every line, processPayouts is applied at most once, over all sequences and
\* interleavings of resolve-line commands.
C5_PayoutAtMostOnce == \A l \in LineIds : payoutRuns[l] <= 1

StatusMoves ==
  {<<"none", "open">>, <<"open", "locked">>, <<"open", "resolved">>,
   <<"locked", "resolved">>}

\* C6: every change of a line's stored status is the creation of the line in open, or
\* one of open->locked, open->resolved, locked->resolved, under any interleaving of
\* create-line, lock-line and resolve-line.
C6_StatusMonotonic ==
  [][\A l \in LineIds :
       lines'[l].status # lines[l].status
         => <<lines[l].status, lines'[l].status>> \in StatusMoves]_vars

\* C7: no bet row of a line is inserted or deleted while the line's stored status is
\* locked or resolved.
C7_StakesFrozen ==
  [][\A l \in LineIds :
       lines[l].status \in {"locked", "resolved"}
         => {b \in bets' : b.line_id = l} = LineBets(l)]_vars

\* C8: placeBet on a line whose status is locked or resolved fails with an error and
\* leaves the bets and the member's balance and total_bets as they were, also for a
\* member who holds a bet on another option of the line.
C8_PlaceBetOnClosedLine ==
  [][\A m \in Members, l \in LineIds, o \in OptionTexts :
       (SvcPlaceBet(m, l, o) /\ lines[l].status \in {"locked", "resolved"})
         => /\ lastOp'.outcome # OK
            /\ UNCHANGED <<bets, users>>]_vars

\* the scenario of C9 has just been played: line 1 created with two options, M1 and M3
\* staked on the first, M2 on the second, and the line resolved once for the first
ScenarioPlayed ==
  /\ events = 5
  /\ lastOp.op = "resolve" /\ lastOp.outcome = "resolved" /\ lastOp.line = 1
  /\ Len(lines[1].options) = 2 /\ lastOp.arg = lines[1].options[1]
  /\ payoutRuns[1] = 1
  /\ Cardinality(bets) = 3
  /\ \A m \in Members : \E b \in LineBets(1) :
       /\ b.user_id = m
       /\ b.option = lines[1].options[IF m = "M2" THEN 2 ELSE 1]

\* C9: after the scenario pot = 1, the winners are M1 and M3, perWinner = 0,
\* remainder = 1 and the three balances are 19.
C9_ScenarioBalances ==
  ScenarioPlayed
    => /\ lastOp.data.totalPot = 1
       /\ {lastOp.data.payouts[i].userId : i \in 1..Len(lastOp.data.payouts)} = {"M1", "M3"}
       /\ lastOp.data.payoutPerWinner = 0
       /\ lastOp.data.remainder = 1
       /\ \A m \in Members : users[m].balance = 19

\* the remainder a payout result reports; a result without the field adds nothing
RemainderOf(data) == IF "remainder" \in DOMAIN data THEN data.remainder ELSE 0

Resolved == lastOp.op = "resolve" /\ lastOp.outcome = "resolved"

PotIsLosingStakes ==
  lastOp.data.totalPot
    = SumAmount(LosingBets(getBetsForLine(DB, lastOp.line), lastOp.arg))

\* C10 as claimed: for every resolution, pot is the sum of the losing stakes and the
\* winners' payouts plus the remainder make up pot, no winners and no losers included.
C10_PotAccountingAlways ==
  Resolved
    => /\ PotIsLosingStakes
       /\ SumPayout(lastOp.data.payouts) + RemainderOf(lastOp.data) = lastOp.data.totalPot

\* C10 amended: for every resolution, pot is the sum of the losing stakes; the winners'
\* payouts plus the remainder make up pot whenever some stake is on the winning option
\* (with no losing stake the result has no remainder, pot and payouts are 0); with no
\* stake on the winning option the payout list is empty, the result has no remainder and
\* the whole pot stays with the house.
C10_PotAccounting ==
  Resolved
    => /\ PotIsLosingStakes
       /\ lastOp.data.message = "split"
            => /\ "remainder" \in DOMAIN lastOp.data
               /\ SumPayout(lastOp.data.payouts) + lastOp.data.remainder
                    = lastOp.data.totalPot
       /\ lastOp.data.message = "no_losers"
            => /\ "remainder" \notin DOMAIN lastOp.data
               /\ lastOp.data.totalPot = 0
               /\ SumPayout(lastOp.data.payouts) = 0
               /\ lastOp.data.payouts # <<>>
       /\ lastOp.data.message = "no_winners"
            => /\ "remainder" \notin DOMAIN lastOp.data
               /\ lastOp.data.payouts = <<>>
       /\ (lastOp.data.message = "no_winners")
            = (WinningBets(getBetsForLine(DB, lastOp.line), lastOp.arg) = <<>>)

\* C10 witness: a resolution with winners and losers that leaves a remainder.
C10_SplitWithRemainder ==
  /\ Resolved
  /\ lastOp.data.message = "split"
  /\ lastOp.data.remainder = 1
  /\ lastOp.data.totalPot = 1

StakesOn(l, o) == {b \in LineBets(l) : b.option = o}

StakesOff(l, o) == {b \in LineBets(l) : b.option # o}

StakeSum(S) == SumAmount(SetToSeqById(S))

\* C11: when a resolution has at least one stake on the winning option and at least one
\* on another option, every winner's payout is floor(pot / |W|) and the remainder is
\* pot mod |W|, with 0 <= remainder < |W| (W = the stakes on the winning option).
C11_EqualSplit ==
  (Resolved /\ StakesOn(lastOp.line, lastOp.arg) # {}
            /\ StakesOff(lastOp.line, lastOp.arg) # {})
    => LET nW == Cardinality(StakesOn(lastOp.line, lastOp.arg))
           pot == lastOp.data.totalPot
           payouts == lastOp.data.payouts
       IN /\ Len(payouts) = nW
          /\ \A i \in 1..Len(payouts) : payouts[i].payout = pot \div nW
          /\ "payoutPerWinner" \in DOMAIN lastOp.data
          /\ lastOp.data.payoutPerWinner = pot \div nW
          /\ "remainder" \in DOMAIN lastOp.data
          /\ lastOp.data.remainder = pot % nW
          /\ lastOp.data.remainder >= 0
          /\ lastOp.data.remainder < nW

\* C11 witness: a resolution with two stakes on the winning option and one on another.
C11_TwoWinnersOneLoser ==
  /\ Resolved
  /\ Cardinality(StakesOn(lastOp.line, lastOp.arg)) = 2
  /\ Cardinality(StakesOff(lastOp.line, lastOp.arg)) = 1

\* the share the stakes of line l give each winner when option w wins
PerWinner(l, w) ==
  IF StakesOn(l, w) = {} \/ StakesOff(l, w) = {} THEN 0
  ELSE StakeSum(StakesOff(l, w)) \div Cardinality(StakesOn(l, w))

\* C12: a completed resolution adds perWinner to the balance and to total_winnings of
\* every member with a stake on the winning option, and takes the stake amount from the
\* balance of every member with a stake on another option, stopping at 0, leaving that
\* member's total_winnings as it was.
C12_ApplyPayout ==
  [][(events' = events + 1 /\ lastOp'.op = "resolve" /\ lastOp'.outcome = "resolved")
       => LET l == lastOp'.line
              w == lastOp'.arg
          IN /\ \A b \in StakesOn(l, w) :
                  /\ users'[b.user_id].balance
                       = users[b.user_id].balance + PerWinner(l, w)
                  /\ users'[b.user_id].total_winnings
                       = users[b.user_id].total_winnings + PerWinner(l, w)
             /\ \A b \in StakesOff(l, w) :
                  /\ users'[b.user_id].balance
                       = (IF users[b.user_id].balance >= b.amount
                          THEN users[b.user_id].balance - b.amount ELSE 0)
                  /\ users'[b.user_id].total_winnings
                       = users[b.user_id].total_winnings]_vars

\* C12 witness: a resolution has paid a winner (total_winnings 1) and met a loser who had
\* no unit left (M1 staked the last unit and lost).
C12_PaidAndFloored ==
  /\ Resolved
  /\ \E b \in StakesOn(lastOp.line, lastOp.arg) : users[b.user_id].total_winnings = 1
  /\ \E b \in StakesOff(lastOp.line, lastOp.arg) :
       b.user_id = "M1" /\ users["M1"].balance = 0

\* this step is a resolve-line command that completed
ResolvedStep == events' = events + 1 /\ lastOp'.op = "resolve" /\ lastOp'.outcome = "resolved"

\* C13: a completed resolution for an option on which no member holds a stake computes
\* an empty payout list and a pot equal to the sum of all stakes of the line, and
\* increases no member's balance or total_winnings.
C13_NoWinningStake ==
  [][(ResolvedStep /\ StakesOn(lastOp'.line, lastOp'.arg) = {})
       => /\ lastOp'.data.payouts = <<>>
          /\ lastOp'.data.totalPot = StakeSum(LineBets(lastOp'.line))
          /\ \A m \in Members :
               /\ users'[m].balance <= users[m].balance
               /\ users'[m].total_winnings = users[m].total_winnings]_vars

\* C13 witness: a line with stakes has been resolved for an option nobody staked on.
C13_HouseKeepsPot ==
  /\ Resolved
  /\ StakesOn(lastOp.line, lastOp.arg) = {}
  /\ LineBets(lastOp.line) # {}
  /\ lastOp.data.totalPot = Cardinality(LineBets(lastOp.line))

\* C14: a completed resolution of a line whose stakes are all on the winning option
\* computes pot 0 and payout 0 for every winner and changes no member's balance.
C14_NoLosingStake ==
  [][(ResolvedStep /\ StakesOff(lastOp'.line, lastOp'.arg) = {})
       => /\ lastOp'.data.totalPot = 0
          /\ Len(lastOp'.data.payouts) = Cardinality(StakesOn(lastOp'.line, lastOp'.arg))
          /\ \A i \in 1..Len(lastOp'.data.payouts) : lastOp'.data.payouts[i].payout = 0
          /\ \A m \in Members : users'[m].balance = users[m].balance]_vars

\* C14 witness: the only member with a losing stake withdrew it (registered, no bet,
\* balance back at the starting balance) and the line was resolved for the option that
\* holds every remaining stake.
C14_LoserWithdrew ==
  /\ Resolved
  /\ StakesOn(lastOp.line, lastOp.arg) # {}
  /\ StakesOff(lastOp.line, lastOp.arg) = {}
  /\ \E m \in Members :
       /\ users[m].registered
       /\ users[m].balance = DEFAULT_BALANCE
       /\ users[m].total_bets = 0

\* C15: a lock-line command on an open line sets the line's status to locked and changes
\* no other line, no bet and no member's balance or stats; on a line that is locked or
\* resolved it is rejected as not open and changes no line, bet or member.
C15_LockOnlyOpen ==
  [][(events' = events + 1 /\ lastOp'.op = "lock")
       => \A u \in Members, l \in LineIds :
            (HandleLockLine(u, l) /\ lines[l].status # "none")
              => IF lines[l].status = "open"
                 THEN /\ lastOp'.outcome = "locked"
                      /\ lines' = [lines EXCEPT ![l].status = "locked"]
                      /\ UNCHANGED <<users, bets>>
                 ELSE /\ lastOp'.outcome = "not_open"
                      /\ UNCHANGED <<users, lines, bets>>]_vars

\* C15 witness: a lock-line command has just been rejected as not open, on a line with a
\* stake that an earlier lock-line command locked.
C15_SecondLockRejected ==
  /\ lastOp.op = "lock" /\ lastOp.outcome = "not_open"
  /\ \A l \in LineIds : lines[l].status \in {"locked", "none"}
  /\ \E l \in LineIds : lines[l].status = "locked" /\ LineBets(l) # {}

\* C16: in every reachable state, a resolve-line command whose winning option is not
\* among the options of the (existing) line is rejected as an invalid option before any
\* payout is computed, and leaves every line (status, winning option), bet and member
\* as it was.
C16_UnknownOptionRejected ==
  \A l \in LineIds :
    lines[l].status # "none"
      => \A w \in Winners :
           (\A i \in 1..Len(lines[l].options) : lines[l].options[i] # w)
             => \A u \in Members :
                  LET r == ResolveLineResult(DB, u, l, w)
                  IN /\ r.outcome = "invalid_option"
                     /\ r.db = DB
                     /\ r.data = NoPayoutData

\* C16 witness: a resolve-line command naming none of the options has just been rejected
\* on a line that holds a stake, and no line has been resolved.
C16_InvalidWinnerRejected ==
  /\ lastOp.op = "resolve" /\ lastOp.outcome = "invalid_option"
  /\ \E l \in LineIds : lines[l].status = "open" /\ LineBets(l) # {}
  /\ \A l \in LineIds : lines[l].status # "resolved" /\ payoutRuns[l] = 0

\* C17: in every reachable state, a resolve-line command naming one of the line's
\* options succeeds on a line that is open and on a line that is locked: it leaves the
\* line resolved with that option as its winning option.
C17_ResolveFromOpenOrLocked ==
  \A u \in Members, l \in LineIds, w \in NamedWinners :
    (/\ lines[l].status \in {"open", "locked"}
     /\ \E i \in 1..Len(lines[l].options) : lines[l].options[i] = w)
      => LET r == ResolveLineResult(DB, u, l, w)
         IN /\ r.outcome = "resolved"
            /\ r.db.lines[l].status = "resolved"
            /\ r.db.lines[l].winner_option = w

\* C18: in every reachable state and for every line, the winning option is set exactly
\* when the status is resolved, and a winning option that is set is one of the line's
\* options.
C18_WinnerIffResolved ==
  \A l \in LineIds :
    /\ (lines[l].winner_option # NULL) = (lines[l].status = "resolved")
    /\ lines[l].winner_option # NULL
         => \E i \in 1..Len(lines[l].options) : lines[l].options[i] = lines[l].winner_option

\* the option the card of line l binds to a reaction name (NULL: none)
DecodedOption(l, reaction) ==
  LET i == FindIndex(lines[l].emojis, nameToEmoji(reaction))
  IN IF i = 0 THEN NULL ELSE lines[l].options[i]

\* in database d member m holds exactly one stake on line l, on option o, and has the
\* balance and total_bets of the users row before
HoldsOnly(d, m, l, o, before) ==
  /\ \E b \in d.bets : UserBetsOnLine(d, m, l) = {b} /\ b.option = o
  /\ d.users[m].balance = before.balance
  /\ d.users[m].total_bets = before.total_bets

C20_SecondBetRejected ==
  [][(events' = events + 1 /\ lastOp'.op = "placeBet")
       => \A m \in Members, l \in LineIds, o \in OptionTexts :
            (HasBetOnLine(DB, m, l) /\ SvcPlaceBet(m, l, o))
              => /\ lastOp'.outcome # OK
                 /\ UNCHANGED <<bets, users>>]_vars

\* option texts a caller of placeBet may pass: options of the modelled lines and a text
\* that is no option of any line
BetTexts == {"over", "under", "red", "nobody"}

\* C21: in every reachable state, placeBet by a registered member whose balance is below
\* 1 and who holds no stake on the line fails with the insufficient-balance error,
\* whatever the line and the option, and leaves the database (bets, balances,
\* total_bets) as it was; a signal-added of that member on an open line ends the same way.
C21_InsufficientBalanceRejected ==
  \A m \in Members :
    (users[m].registered /\ users[m].balance < 1)
      => \A l \in LineIds :
           ~HasBetOnLine(DB, m, l)
             => /\ \A o \in BetTexts :
                     placeBet(DB, m, l, o) = [err |-> ERR_INSUFFICIENT, db |-> DB]
                /\ \A r \in Reactions :
                     (lines[l].status = "open" /\ DecodedOption(l, r) # NULL)
                       => ReactionAddedResult(DB, m, l, r)
                            = [outcome |-> ERR_INSUFFICIENT, db |-> DB]

\* C21 witness: a signal-added has just been refused for insufficient balance: M1, whose
\* last unit is staked on one open line, has no unit and no stake on the other open line.
C21_LastUnitStaked ==
  /\ lastOp.op = "added" /\ lastOp.outcome = ERR_INSUFFICIENT
  /\ users["M1"].balance = 0
  /\ \A l \in LineIds : lines[l].status = "open"
  /\ \E l \in LineIds : HasBetOnLine(DB, "M1", l)
  /\ \E l \in LineIds : ~HasBetOnLine(DB, "M1", l)

\* C22: in every reachable state, placeBet for the option on which the member already
\* holds a stake on the line fails with the same-option error and leaves the database
\* (bets, balances, total_bets) as it was, and so does a signal-added whose symbol
\* decodes to that option while the line is open.
C22_SameOptionRejected ==
  \A b \in bets :
    /\ placeBet(DB, b.user_id, b.line_id, b.option) = [err |-> ERR_SAME_OPTION, db |-> DB]
    /\ \A r \in Reactions :
         (lines[b.line_id].status = "open" /\ DecodedOption(b.line_id, r) = b.option)
           => ReactionAddedResult(DB, b.user_id, b.line_id, r)
                = [outcome |-> ERR_SAME_OPTION, db |-> DB]

\* C22 witness: a signal-added has just been refused for the same option: the member
\* holds the one bet there is, the first ever placed, with one unit debited.
C22_RepeatedSignal ==
  /\ lastOp.op = "added" /\ lastOp.outcome = ERR_SAME_OPTION
  /\ \E b \in bets :
       /\ bets = {b} /\ b.id = 1
       /\ lines[b.line_id].status = "open"
       /\ users[b.user_id].balance = DEFAULT_BALANCE - 1
       /\ users[b.user_id].total_bets = 1

\* C23: with events handled one at a time, a confirmed signal-added of a registered
\* member with balance >= 1 and no stake on the (open) line takes exactly 1 from that
\* member's balance, adds exactly 1 to total_bets, inserts exactly one bet row, of
\* amount 1, on the option the symbol decodes to, and leaves every other member's row,
\* every other bet and every line as they were.
C23_PlacementEffect ==
  [][(events' = events + 1 /\ lastOp'.op = "added" /\ lastOp'.outcome = "confirmed")
       => \A m \in Members, l \in LineIds :
            (users[m].registered /\ users[m].balance >= 1 /\ ~HasBetOnLine(DB, m, l))
              => \A r \in Reactions :
                   HandleReactionAdded(m, l, r)
                     => /\ \E b \in bets' :
                             /\ b \notin bets
                             /\ bets' = bets \cup {b}
                             /\ b.user_id = m /\ b.line_id = l /\ b.amount = 1
                             /\ b.option = DecodedOption(l, r)
                        /\ users' = [users EXCEPT ![m].balance = @ - 1,
                                                  ![m].total_bets = @ + 1]
                        /\ lines' = lines]_vars

\* C23 witness: a registered member without a stake on the line has just placed one: the
\* member now holds a bet on each of the two open lines, with two units debited and two
\* bets counted.
C23_SecondLineStake ==
  /\ lastOp.op = "added" /\ lastOp.outcome = "confirmed"
  /\ \E m \in Members :
       /\ \A l \in LineIds : lines[l].status = "open" /\ BetCount(m, l) = 1
       /\ users[m].balance = DEFAULT_BALANCE - 2
       /\ users[m].total_bets = 2
  /\ Cardinality(bets) = 2

\* C24: with events handled one at a time, (1) every signal-removed that retires a stake
\* acts on an open line, deletes that one bet row, adds its amount, 1, to the member's
\* balance, takes 1 from total_bets and changes nothing else; (2) right after every
\* confirmed signal-added, a signal-removed of that member whose symbol decodes to the
\* option of the new stake retires it that way, and when the member had a row and no
\* stake on the line before placing, the balance is back at what it was before placing.
C24_WithdrawalRefunds ==
  [][(events' = events + 1)
       => /\ (lastOp'.op = "removed" /\ lastOp'.outcome = "removed")
               => \E a \in bets :
                    /\ bets' = bets \ {a}
                    /\ a.amount = 1
                    /\ lines[a.line_id].status = "open"
                    /\ users' = [users EXCEPT ![a.user_id].balance = @ + 1,
                                               ![a.user_id].total_bets = @ - 1]
                    /\ lines' = lines
          /\ (lastOp'.op = "added" /\ lastOp'.outcome = "confirmed")
               => \A b \in bets' \ bets : \A r \in Reactions :
                    DecodedOption(b.line_id, r) = b.option
                      => LET res == ReactionRemovedResult(DB', b.user_id, b.line_id, r)
                         IN /\ res.outcome = "removed"
                            /\ res.db.bets = bets' \ {b}
                            /\ res.db.users
                                 = [users' EXCEPT ![b.user_id].balance = @ + 1,
                                                  ![b.user_id].total_bets = @ - 1]
                            /\ res.db.lines = lines'
                            /\ (users[b.user_id].registered
                                  /\ ~HasBetOnLine(DB, b.user_id, b.line_id))
                                 => res.db.users[b.user_id] = users[b.user_id]]_vars

\* C24 witness: a stake has just been withdrawn: the only member who ever acted has no
\* bet left, the starting balance again and no bet counted, on a line that is still open.
C24_StakeWithdrawn ==
  /\ lastOp.op = "removed" /\ lastOp.outcome = "removed"
  /\ bets = {} /\ nextBetId = 2
  /\ \E l \in LineIds : lines[l].status = "open"
  /\ \E m \in Members :
       /\ users[m].registered
       /\ users[m].balance = DEFAULT_BALANCE
       /\ users[m].total_bets = 0
       /\ \A n \in Members \ {m} : ~users[n].registered

\* C25: in every reachable state, a signal-removed of any member on any line with any
\* symbol is ignored and leaves the database (bets, balances, stats, lines) as it is
\* whenever the line is not open, or the member holds no stake on the line, or the symbol
\* decodes to no option or to an option other than that of the member's stake.
C25_RemovalIgnored ==
  \A m \in Members, l \in LineIds :
    LET closed == lines[l].status # "open"
        none == ~HasBetOnLine(DB, m, l)
        held == getUserBetOnLine(DB, m, l).option
    IN \A r \in Reactions :
         (closed \/ none \/ DecodedOption(l, r) # held)
           => ReactionRemovedResult(DB, m, l, r) = [outcome |-> "ignored", db |-> DB]

\* C25 witness: a signal-removed has just been ignored while the only line there is is
\* locked and holds a stake.
C25_IgnoredRemoval ==
  /\ lastOp.op = "removed" /\ lastOp.outcome = "ignored"
  /\ lines[1].status = "locked" /\ lines[2].status = "none"
  /\ LineBets(1) # {}

\* C26: in every reachable state, a signal-added and a signal-removed of any member on
\* any existing line whose symbol is none of the line's stored symbols are ignored
\* without an answer to the member (the outcome is "ignored", not an error text) and
\* leave the database (bets, balances, stats, lines) as it is.
C26_UnknownSymbolIgnored ==
  \A l \in LineIds :
    lines[l].status # "none"
      => \A r \in Reactions :
           (\A i \in 1..Len(lines[l].emojis) : lines[l].emojis[i] # nameToEmoji(r))
             => \A m \in Members :
                  /\ ReactionAddedResult(DB, m, l, r) = [outcome |-> "ignored", db |-> DB]
                  /\ ReactionRemovedResult(DB, m, l, r) = [outcome |-> "ignored", db |-> DB]

\* C26 witness: a signal-added has just been ignored on an open line that holds a stake
\* while no other line exists.
C26_StraySignal ==
  /\ lastOp.op = "added" /\ lastOp.outcome = "ignored"
  /\ lines[1].status = "open" /\ lines[2].status = "none"
  /\ LineBets(1) # {}

BetsHeld(m) == {b \in bets : b.user_id = m}

\* C27: under any interleaving of the handlers, in every state in which no handler is
\* running and no payout has been computed for any line, every registered member's
\* balance is the starting balance minus the number of bets the member holds.
C27_BalanceMatchesBets ==
  (Quiescent /\ \A l \in LineIds : payoutRuns[l] = 0)
    => \A m \in Members :
         users[m].registered
           => users[m].balance = DEFAULT_BALANCE - Cardinality(BetsHeld(m))

\* C28: with events handled one at a time, a lock-line command on line X leaves every
\* other line's row (status, winning option) and every bet as they were; a completed
\* resolve-line command on X leaves every other line's row and every bet as they were
\* and leaves the row (balance, stats) of every member without a bet on X as it was; a
\* rejected resolve-line command changes no line, bet or member.
C28_OtherLinesUntouched ==
  [][(events' = events + 1)
       => /\ lastOp'.op = "lock"
               => \A x \in LineIds :
                    (\E u \in Members : HandleLockLine(u, x))
                      => /\ \A k \in LineIds \ {x} : lines'[k] = lines[k]
                         /\ bets' = bets
          /\ (lastOp'.op = "resolve" /\ lastOp'.outcome = "resolved")
               => /\ \A k \in LineIds \ {lastOp'.line} : lines'[k] = lines[k]
                  /\ bets' = bets
                  /\ \A m \in Members :
                       ~HasBetOnLine(DB, m, lastOp'.line) => users'[m] = users[m]
          /\ (lastOp'.op = "resolve" /\ lastOp'.outcome # "resolved")
               => UNCHANGED <<users, lines, bets>>]_vars

\* C28 witness: a line with a losing stake has just been resolved while the other line
\* is open and holds the stake of a member who has no bet on the resolved line and one
\* unit debited.
C28_ResolvedBesideOpenLine ==
  /\ Resolved
  /\ StakesOff(lastOp.line, lastOp.arg) # {}
  /\ \E k \in LineIds \ {lastOp.line} :
       /\ lines[k].status = "open"
       /\ \E b \in LineBets(k) :
            /\ ~HasBetOnLine(DB, b.user_id, lastOp.line)
            /\ users[b.user_id].balance = DEFAULT_BALANCE - 1

\* C29: under any interleaving of create-line, lock-line, resolve-line and the signal
\* handlers, every line's stored symbol sequence has the length of its option sequence
\* in every state, and no step changes the options or the symbols of a line that exists.
C29_SymbolsAligned ==
  [][\A l \in LineIds :
       /\ Len(lines[l].emojis) = Len(lines[l].options)
       /\ Len(lines'[l].emojis) = Len(lines'[l].options)
       /\ lines[l].status # "none"
            => /\ lines'[l].options = lines[l].options
               /\ lines'[l].emojis = lines[l].emojis]_vars

\* C29 witness: a line created with two options has been staked on and resolved and
\* still has its two symbols, those generated at creation.
C29_ResolvedLineKeepsSymbols ==
  /\ lines[1].status = "resolved"
  /\ LineBets(1) # {}
  /\ Len(lines[1].options) = 2
  /\ lines[1].emojis = generateEmojis(lines[1].options)

\* C30: with events handled one at a time, a create-line command whose text gives fewer
\* than 2 options once the entries are trimmed and the empty ones dropped is rejected
\* and changes no line, bet or member; every line that exists has at least 2 options,
\* none of them empty; and a line that comes into existence has status open.
C30_AtLeastTwoOptions ==
  [][/\ \A l \in LineIds :
          lines'[l].status # "none"
            => /\ Len(lines'[l].options) >= 2
               /\ \A i \in 1..Len(lines'[l].options) : lines'[l].options[i] # ""
               /\ lines[l].status = "none" => lines'[l].status = "open"
     /\ (events' = events + 1 /\ lastOp'.op = "create")
          => \A raw \in RawOptionInputs :
               (Len(ParseOptions(raw)) < 2 /\ \E u \in Members : HandleCreateCommand(u, raw))
                 => /\ lastOp'.outcome = "too_few_options"
                    /\ UNCHANGED <<users, lines, bets>>]_vars

\* C30 witness: a create-line command has just been rejected for too few options while
\* one line, created with three options, is open and no other line exists.
C30_TooFewRejected ==
  /\ lastOp.op = "create" /\ lastOp.outcome = "too_few_options"
  /\ lines[1].status = "open" /\ Len(lines[1].options) = 3
  /\ lines[2].status = "none"

\* the database cut down to line l and its stakes: no other line, no other bet, every
\* registered member back at the column defaults, the line open without a winner
Isolated(l) ==
  [users |-> [m \in Members |->
                IF users[m].registered
                THEN [registered |-> TRUE, balance |-> DEFAULT_BALANCE, total_bets |-> 0,
                      total_winnings |-> 0]
                ELSE NoUserRow],
   lines |-> [k \in LineIds |->
                IF k = l /\ lines[l].status # "none"
                THEN [lines[l] EXCEPT !.status = "open", !.winner_option = NULL]
                ELSE NoLineRow],
   bets |-> LineBets(l),
   nextBetId |-> nextBetId]

\* C31: with events handled one at a time, a payout computation changes no member's
\* row, no bet and no line; what it returns (payouts, pot, remainder, or the error) is
\* what the computation returns on the line's stakes alone, whatever the balances, the
\* stats, the line's status and the other lines and their bets; and a second
\* computation right after it returns the same.
C31_CalculateIsPure ==
  [][(events' = events + 1 /\ lastOp'.op = "calculate")
       => /\ UNCHANGED <<users, lines, bets, nextBetId>>
          /\ LET alone == calculatePayouts(Isolated(lastOp'.line), lastOp'.line, lastOp'.arg)
                 again == calculatePayouts(DB', lastOp'.line, lastOp'.arg)
             IN /\ lastOp'.outcome = alone.err /\ lastOp'.data = alone.data
                /\ lastOp'.outcome = again.err /\ lastOp'.data = again.data]_vars

\* C31 witness: a payout has just been computed with a winner and a loser on a line
\* that is still open, while the other line holds a stake too and every member who
\* staked still has one unit debited and nothing won.
C31_ComputedNotApplied ==
  /\ lastOp.op = "calculate" /\ lastOp.outcome = OK
  /\ lastOp.data.message = "split"
  /\ lines[lastOp.line].status = "open"
  /\ \A b \in bets :
       /\ users[b.user_id].balance = DEFAULT_BALANCE - 1
       /\ users[b.user_id].total_winnings = 0

\* C32: with events handled one at a time, a create-line, lock-line or resolve-line
\* command issued by a member without admin permissions is refused as not admin and
\* leaves every line, bet and member's row as it was.
C32_NonAdminRefused ==
  [][(events' = events + 1 /\ lastOp'.op \in {"create", "lock", "resolve"})
       => \A u \in Members \ WorkspaceAdmins :
            (\/ \E options \in OptionInputs : HandleCreateLine(u, options)
             \/ \E l \in LineIds : HandleLockLine(u, l)
             \/ \E l \in LineIds, w \in Winners : HandleResolveLine(u, l, w))
              => /\ lastOp'.outcome = "not_admin"
                 /\ UNCHANGED <<users, lines, bets>>]_vars

\* C33: in every reachable state, a signal-added of any member whose symbol is one of
\* the line's symbols, on a line that is locked or resolved, is answered to the member
\* with the error that the line no longer accepts bets, and leaves the database (bets,
\* balances) as it is.
C33_ClosedLineReported ==
  \A l \in LineIds :
    lines[l].status \in {"locked", "resolved"}
      => \A r \in Reactions :
           DecodedOption(l, r) # NULL
             => \A m \in Members :
                  ReactionAddedResult(DB, m, l, r)
                    = [outcome |-> ERR_NOT_ACCEPTING, db |-> DB]

\* the symbol C34 gives the option at position i (1-based) of an option list
ClaimedSymbol(options, i) ==
  IF ToLowerCase(options[i]) \in {"yes", "no", "over", "under", "win", "lose", "tie"}
  THEN customEmojis[ToLowerCase(options[i])]
  ELSE IF i <= 10 THEN defaultEmojis[i]
  ELSE ":" \o ToString(i) \o ":"

\* C34: for every line that exists, the symbols generateEmojis gave at creation are, in
\* option order and one per option, the curated symbol of the option's lower-cased text
\* when it is one of yes, no, over, under, win, lose, tie, otherwise the default symbol
\* of its position among the first ten, otherwise the numeric placeholder.
C34_SymbolPerOption ==
  \A l \in LineIds :
    lines[l].status # "none"
      => /\ Len(lines[l].emojis) = Len(lines[l].options)
         /\ \A i \in 1..Len(lines[l].options) :
              lines[l].emojis[i] = ClaimedSymbol(lines[l].options, i)

\* C35: under any interleaving of the handlers, every bet row belongs to a line that
\* exists, its option is one of that line's options and its amount is exactly 1.
C35_BetsWellFormed ==
  \A b \in bets :
    /\ b.line_id \in LineIds
    /\ lines[b.line_id].status # "none"
    /\ \E i \in 1..Len(lines[b.line_id].options) : lines[b.line_id].options[i] = b.option
    /\ b.amount = 1

\* C35 witness: with no handler running, the line holds a bet on each of its two
\* options, placed by two members.
C35_BothOptionsStaked ==
  /\ Quiescent
  /\ \E a \in bets, b \in bets :
       /\ a.user_id # b.user_id
       /\ a.line_id = 1 /\ b.line_id = 1
       /\ a.option = lines[1].options[1]
       /\ b.option = lines[1].options[2]

PairwiseDistinct(s) == \A i \in 1..Len(s), j \in 1..Len(s) : s[i] = s[j] => i = j

\* C36: for every line that exists and whose option texts are pairwise distinct, the
\* stored symbols are pairwise distinct, the first position whose symbol equals the
\* symbol of option i is i, and every option has a symbol a reaction can name.
C36_SymbolsDistinct ==
  \A l \in LineIds :
    (lines[l].status # "none" /\ PairwiseDistinct(lines[l].options))
      => /\ PairwiseDistinct(lines[l].emojis)
         /\ \A i \in 1..Len(lines[l].options) :
              /\ FindIndex(lines[l].emojis, lines[l].emojis[i]) = i
              /\ lines[l].emojis[i] # NULL

\* C37: with events handled one at a time, from the empty database, every member's
\* total_bets is the number of bet rows the member holds over all lines.
C37_TotalBetsCountsRows ==
  \A m \in Members : users[m].total_bets = Cardinality(BetsHeld(m))

\* C37 witness: a line has just been locked; one member holds one bet, counted once,
\* and another member, who placed a bet and withdrew it, holds none and counts none.
C37_CountedAndUncounted ==
  /\ lastOp.op = "lock" /\ lastOp.outcome = "locked"
  /\ \E m \in Members : users[m].total_bets = 1 /\ Cardinality(BetsHeld(m)) = 1
  /\ \E m \in Members :
       users[m].registered /\ users[m].total_bets = 0 /\ BetsHeld(m) = {}

RECURSIVE SumBalances(_)
\* the sum of the balances of the users rows of the members in S
SumBalances(S) ==
  IF S = {} THEN 0
  ELSE LET m == CHOOSE x \in S : TRUE
       IN users[m].balance + SumBalances(S \ {m})

Registered == {m \in Members : users[m].registered}

\* C38: under any interleaving of the handlers, the sum of the balances of all members
\* who have a users row never exceeds their number times the starting balance.
C38_ClosedEconomy ==
  SumBalances(Registered) <= Cardinality(Registered) * DEFAULT_BALANCE

\* a resolve-line handler has computed the payout of line l and has not yet written
\* the status 'resolved'
ResolveInFlight(l) ==
  \E p \in Procs :
    /\ pc[p] \in {"v_winRead", "v_winWrite", "v_winStat", "v_getBets", "v_loseRead",
                  "v_loseWrite", "v_status"}
    /\ loc[p].l = l

\* C39: while resolve-line is between its payout computation and its write of the
\* status 'resolved', no bet row of the line is inserted or deleted, so the bets the
\* payout was computed from, the losing bets debited and the bets of the line when it
\* becomes resolved are the same set.
C39_BetsFixedDuringResolve ==
  [][\A l \in ConcLineIds :
       ResolveInFlight(l) =>
         {b \in bets' : b.line_id = l} = {b \in bets : b.line_id = l}]_vars

====
